---- MODULE Spec2Model ----
(***************************************************************************)
(* Vocal extraction front end (src/src/components/VocalExtraction.tsx and  *)
(* src/src/components/AudioUpload.tsx) as a state machine.                 *)
(*                                                                         *)
(* The component's React state, the audio-context ref, the promise of      *)
(* processAudioWithAI, its two timers and the asynchronous steps of every  *)
(* run (file reads, decode, tensor read-back) are the state.  One action   *)
(* stands for one handler or callback.  A handler is callable whenever its *)
(* own code lets it act: the conditions it tests are its guards.           *)
(***************************************************************************)
EXTENDS Bags, FiniteSets, Integers, Sequences, TLC

(* ------------------------------- bounds -------------------------------- *)
\* extraction runs started in one behaviour
MaxRuns == 2
\* samples per channel of the inputs given to extractVocals
MaxLen == 2
\* activations of extractVocals followed in one behaviour
MaxExtractions == 2
\* channels of the inputs given to extractVocals
MaxChannels == 3
\* samples per channel of the inputs of more than two channels
MaxMultiLen == 1
\* samples of the one-channel inputs given to extractVocals
MaxMonoLen == 13
\* remote jobs, submitted or awaiting their identifier
MaxJobs == 2
\* pollJobStatus requests in flight at a time
MaxPolls == 2
\* calls of the store made from outside TTSComponent
MaxStoreCalls == 1
\* samples per window of the one-channel branch: the code's 1024 (280)
\* brought down to the size of the inputs; the hop stays a quarter of it
windowSize == 8

(* ------------------------------ constants ------------------------------ *)
NoFile == 0
NoError == "null"
NoResult == << >>
NoContext == 0
NoJob == 0
NoTimer == 0

\* AudioUpload.validateFile: maxSize = 50 * 1024 * 1024
MaxUploadSize == 50 * 1024 * 1024

\* The files a user may pick: 1 stereo audio, 2 mono audio of exactly the
\* largest accepted size, 3 not audio, 4 audio one byte too large.
Files == 1 .. 4
FileIsAudio(f) == f \in {1, 2, 4}
FileSize(f) == CASE f = 1 -> 1024
                 [] f = 2 -> MaxUploadSize
                 [] f = 3 -> 1024
                 [] OTHER -> MaxUploadSize + 1
FileChannels(f) == IF f = 2 THEN 1 ELSE 2

\* formatStore: type AudioFormat, and the preference before any choice.
Formats == {"wav", "mp3"}
DefaultFormat == "wav"

MsgSelectFile == "Please select an audio file"
MsgNotReady == "Audio processing engine is not ready yet. Please wait a moment."
MsgInitFailed == "Failed to initialize AI processing engine"
MsgReadOriginal == "Failed to read the audio file"
MsgReadFile == "Failed to read audio file"
MsgDecodeTimeout == "Audio decoding timed out"
MsgRunTimeout == "Audio processing timed out after 30 seconds"
MsgDecodeError == "Unable to decode audio data"
MsgEncodeError == "Array buffer allocation failed"
MsgNotAudio == "Please upload an audio file"
MsgTooLarge == "File size must be less than 50MB"

(* -------------------------------- state -------------------------------- *)
VARIABLES
    inputFile,      \* useState<File | null>: a file of Files, or NoFile
    isProcessing,   \* useState(false)
    error,          \* useState<string | null>
    result,         \* useState<{vocals, accompaniment, original} | null>
    progress,       \* useState(0)
    engineLoaded,   \* useState(false)
    tf,             \* useState<tfjs | null>: "null", "webgl" or "cpu"
    initStep,       \* position of initTensorFlow
    uploadError,    \* AudioUpload's own error state
    audioContextRef,\* useRef<AudioContext | null>: a context id or NoContext
    openContexts,   \* the AudioContexts created and not closed
    runs,           \* the runs started so far, in order; see NewRun
    progressLog,    \* values given to setProgress since the last start
    lastCall,       \* how the latest step returned if it was a call of
                    \* handleExtractVocals, "none" if it was not
    mounted,        \* the component is mounted
    extraction,     \* one activation of extractVocals; see BeginExtraction
    outputFormat,   \* useFormatStore: the output-format preference
    resultFormat    \* the format the payloads in result were encoded for,
                    \* "none" while result is null

\* ttsStore, useJobPolling and TTSComponent.
VARIABLES
    jobs,           \* useTTSStore: jobs, a record per job id held
    currentJobId,   \* useTTSStore: currentJobId, NoJob for null
    intervalRef,    \* useRef<Timeout | null>: a timer handle or NoTimer
    timers,         \* the interval timers set and not cleared: handle h,
                    \* and the jobId its pollJob closure holds
    cleanup,        \* the latest effect returned its cleanup function
    polls,          \* pollJobStatus requests in flight: the jobId, "auto"
                    \* or "manual", and the answer on its way back,
                    \* "sent" before the remote side has answered
    submissions,    \* submissions awaiting their job id: "tts" or
                    \* "voice_clone"
    remote,         \* the status of each remote job, "none" before it
                    \* exists
    pollingMounted, \* TTSComponent is mounted
    stopped,        \* the jobs an automatic poll has seen completed or
                    \* failed, or has failed for
    storeCalls      \* calls of setCurrentJob, clearJob and clearAllJobs
                    \* made from outside TTSComponent

compVars == <<inputFile, isProcessing, error, result, progress, resultFormat>>
envVars == <<engineLoaded, tf, initStep, uploadError, mounted, outputFormat>>
resVars == <<audioContextRef, openContexts>>
ttsVars == <<jobs, currentJobId, intervalRef, timers, cleanup, polls,
            submissions, remote, pollingMounted, stopped, storeCalls>>
hostVars == <<compVars, envVars, resVars, runs, progressLog, lastCall,
             extraction>>
vars == <<hostVars, ttsVars>>

RunIds == 1 .. MaxRuns

\* One run of handleExtractVocals:
\*   file     the inputFile the run's callbacks hold, NoFile once the run
\*            has nothing left in flight
\*   pc       where the run's asynchronous work stands:
\*            "readOrig" reader.readAsDataURL in flight (487)
\*            "readFile" reader.readAsArrayBuffer in flight (153)
\*            "decode"   decodeAudioData in flight (110)
\*            "tfData"   awaiting the tensors' data() (249-250)
\*            "ended"    nothing of the run is in flight
\*   outcome  "pending" while the handler has not finished, then
\*            "done", "failed" or "timedOut"
\*   t30      the 30 s timer of processAudioWithAI is armed (92-94)
\*   t10      the 10 s decode timer is armed and its race is open
\*            (111-121)
\*   raced    Promise.race was settled by the decode timer (118-121)
\*   ctx      the AudioContext the run created (98-101)
\*   format   the outputFormat the run's closures hold (130, 134)
NewRun(f) ==
    [file |-> f, pc |-> "readOrig", outcome |-> "pending",
     t30 |-> FALSE, t10 |-> FALSE, raced |-> FALSE, ctx |-> NoContext,
     format |-> outputFormat]

Started(r) == r \in 1 .. Len(runs)

\* The record of a run whose last callback has returned with `how`: nothing
\* of it is in flight and clearTimeout (137, 143, 149) has been called.
Over(rec, how) ==
    [rec EXCEPT !.pc = "ended", !.file = NoFile, !.t30 = FALSE, !.t10 = FALSE,
                !.outcome = IF @ = "pending" THEN how ELSE @]

\* No activation of extractVocals is being followed.
NoExtraction == [pc |-> "none"]

\* The component after its first render.
ComponentInit ==
    /\ inputFile = NoFile
    /\ isProcessing = FALSE
    /\ error = NoError
    /\ result = NoResult
    /\ progress = 0
    /\ engineLoaded = FALSE
    /\ tf = "null"
    /\ initStep = "webgl"
    /\ uploadError = NoError
    /\ audioContextRef = NoContext
    /\ openContexts = {}
    /\ runs = << >>
    /\ progressLog = << >>
    /\ lastCall = "none"
    /\ mounted = TRUE
    /\ outputFormat = DefaultFormat
    /\ resultFormat = "none"

JobIds == 1 .. MaxJobs

\* An optional field that is not set.
Undefined == "undefined"

\* The job record startJob writes (42-47).  createdAt is TRUE when set;
\* updatedAt, set by every writer, is left out.
NewJob(jobId) ==
    [id |-> jobId, status |-> "pending", result |-> Undefined,
     error |-> Undefined, createdAt |-> TRUE]

\* The store as created (34-35), the hook after the effect of the first
\* render, whose jobId is null (13-19), and nothing sent.
PollingInit ==
    /\ jobs = [j \in {} |-> NewJob(j)]
    /\ currentJobId = NoJob
    /\ intervalRef = NoTimer
    /\ timers = {}
    /\ cleanup = FALSE
    /\ polls = EmptyBag
    /\ submissions = EmptyBag
    /\ remote = [j \in JobIds |-> "none"]
    /\ pollingMounted = TRUE
    /\ stopped = {}
    /\ storeCalls = 0

Init == ComponentInit /\ extraction = NoExtraction /\ PollingInit

(* ------------------------- initTensorFlow (43-78) ---------------------- *)
\* The WebGL path succeeded: setTf, setEngineLoaded(true).
InitWebglOk ==
    /\ mounted /\ initStep = "webgl"
    /\ tf' = "webgl" /\ engineLoaded' = TRUE /\ initStep' = "ready"
    /\ lastCall' = "none"
    /\ UNCHANGED <<extraction, ttsVars>>
    /\ UNCHANGED <<compVars, uploadError, mounted, outputFormat, resVars, runs,
                   progressLog>>

\* The WebGL path threw: the catch block tries the CPU backend.
InitWebglFail ==
    /\ mounted /\ initStep = "webgl"
    /\ initStep' = "cpu"
    /\ lastCall' = "none"
    /\ UNCHANGED <<extraction, ttsVars>>
    /\ UNCHANGED <<compVars, engineLoaded, tf, uploadError, mounted,
                   outputFormat, resVars, runs, progressLog>>

InitCpuOk ==
    /\ mounted /\ initStep = "cpu"
    /\ tf' = "cpu" /\ engineLoaded' = TRUE /\ initStep' = "ready"
    /\ lastCall' = "none"
    /\ UNCHANGED <<extraction, ttsVars>>
    /\ UNCHANGED <<compVars, uploadError, mounted, outputFormat, resVars, runs,
                   progressLog>>

\* The fallback threw too: setError, engineLoaded stays false.
InitCpuFail ==
    /\ mounted /\ initStep = "cpu"
    /\ initStep' = "failed"
    /\ error' = MsgInitFailed
    /\ lastCall' = "none"
    /\ UNCHANGED <<extraction, ttsVars>>
    /\ UNCHANGED <<inputFile, isProcessing, result, progress, resultFormat,
                   engineLoaded, tf, uploadError, mounted, outputFormat,
                   resVars, runs, progressLog>>

(* ------------------------------ AudioUpload ---------------------------- *)
\* validateFile without its size check.
validateFile_NoSizeCheck(f) ==
    IF ~FileIsAudio(f) THEN MsgNotAudio ELSE NoError

\* validateFile: the message it sets, NoError for a file it accepts.
validateFile(f) ==
    IF ~FileIsAudio(f) THEN MsgNotAudio
    ELSE IF FileSize(f) > MaxUploadSize THEN MsgTooLarge
    ELSE NoError

\* handleFileSelect, reached from handleInputChange and handleDrop; the
\* upload control is disabled while isProcessing.
handleFileSelect(f) ==
    /\ mounted /\ ~isProcessing
    /\ uploadError' = validateFile(f)
    /\ inputFile' = IF validateFile(f) = NoError THEN f ELSE inputFile
    /\ lastCall' = "none"
    /\ UNCHANGED <<extraction, ttsVars>>
    /\ UNCHANGED <<isProcessing, error, result, progress, resultFormat,
                   engineLoaded, tf, initStep, mounted, outputFormat,
                   resVars, runs, progressLog>>

handleRemoveFile ==
    /\ mounted /\ ~isProcessing /\ inputFile # NoFile
    /\ inputFile' = NoFile
    /\ uploadError' = NoError
    /\ lastCall' = "none"
    /\ UNCHANGED <<extraction, ttsVars>>
    /\ UNCHANGED <<isProcessing, error, result, progress, resultFormat,
                   engineLoaded, tf, initStep, mounted, outputFormat,
                   resVars, runs, progressLog>>

(* ------------------- handleExtractVocals (421-495) --------------------- *)
\* EntryRejection without the test of isProcessing at 424.
EntryRejection_NoBusyCheck ==
    IF inputFile = NoFile THEN "nofile"
    ELSE IF ~engineLoaded THEN "notready"
    ELSE "none"

\* The early return the handler takes, "none" when it goes on to start a
\* run (424-439).
EntryRejection ==
    IF isProcessing THEN "busy"
    ELSE IF inputFile = NoFile THEN "nofile"
    ELSE IF ~engineLoaded THEN "notready"
    ELSE "none"

\* RejectionError with the two messages exchanged.
RejectionError_Exchanged(reason) ==
    CASE reason = "nofile" -> MsgNotReady
      [] reason = "notready" -> MsgSelectFile
      [] OTHER -> error

\* What an early return leaves in error (430, 435-437); the return at 426
\* sets nothing.
RejectionError(reason) ==
    CASE reason = "nofile" -> MsgSelectFile
      [] reason = "notready" -> MsgNotReady
      [] OTHER -> error

\* One call of handleExtractVocals up to its return: an early return, or
\* the start of a run (441-445) with reader.readAsDataURL issued (487).
\* inputFile is a File, so readAsDataURL does not throw and the outer
\* catch (488-494) is not entered.
handleExtractVocals ==
    /\ mounted
    /\ IF EntryRejection = "none"
       THEN /\ Len(runs) < MaxRuns
            /\ isProcessing' = TRUE
            /\ error' = NoError
            /\ result' = NoResult
            /\ resultFormat' = "none"
            /\ progress' = 0
            /\ progressLog' = <<0>>
            /\ runs' = Append(runs, NewRun(inputFile))
            /\ lastCall' = "started"
            /\ UNCHANGED inputFile
       ELSE /\ lastCall' = EntryRejection
            /\ error' = RejectionError(EntryRejection)
            /\ UNCHANGED <<inputFile, isProcessing, result, progress,
                           resultFormat, progressLog, runs>>
    /\ UNCHANGED <<envVars, resVars, extraction, ttsVars>>

(* -------------- the handler's continuation (458-477, 480-485) ---------- *)
\* The value the finally block and reader.onerror leave in progress.
FinalProgress == 0

\* audioBufferToBase64 (346-355, 410-419): the container of the bytes it
\* returns for a requested format; the mp3 path calls the wav encoder.
ContainerOf(format) == IF format = "wav" THEN "wav" ELSE "wav"

\* HandlerSucceeds with a finally block that leaves progress alone.
HandlerSucceeds_KeepsProgress(r) ==
    /\ progress' = 100
    /\ progressLog' = Append(progressLog, 100)
    /\ result' = << [vocals |-> <<"vocals", runs[r].file,
                                   ContainerOf(runs[r].format)>>,
                     accompaniment |-> <<"accompaniment", runs[r].file,
                                         ContainerOf(runs[r].format)>>,
                     original |-> <<"original", runs[r].file>>] >>
    /\ resultFormat' = runs[r].format
    /\ isProcessing' = FALSE
    /\ UNCHANGED <<inputFile, error>>

\* await processAudioWithAI returned: setProgress(100), setResult, finally.
HandlerSucceeds(r) ==
    /\ progress' = FinalProgress
    /\ progressLog' = progressLog \o <<100, FinalProgress>>
    /\ result' = << [vocals |-> <<"vocals", runs[r].file,
                                   ContainerOf(runs[r].format)>>,
                     accompaniment |-> <<"accompaniment", runs[r].file,
                                         ContainerOf(runs[r].format)>>,
                     original |-> <<"original", runs[r].file>>] >>
    /\ resultFormat' = runs[r].format
    /\ isProcessing' = FALSE
    /\ UNCHANGED <<inputFile, error>>

\* HandlerFails without its setIsProcessing(false).
HandlerFails_StillProcessing(msg) ==
    /\ error' = msg
    /\ progress' = FinalProgress
    /\ progressLog' = Append(progressLog, FinalProgress)
    /\ UNCHANGED <<inputFile, isProcessing, result, resultFormat>>

\* await processAudioWithAI threw, or reader.onerror: setError, then
\* setIsProcessing(false), setProgress(0).
HandlerFails(msg) ==
    /\ error' = msg
    /\ isProcessing' = FALSE
    /\ progress' = FinalProgress
    /\ progressLog' = Append(progressLog, FinalProgress)
    /\ UNCHANGED <<inputFile, result, resultFormat>>

\* A resolve that acts on a settled promise too.
Resolve_Unsettled(r) == HandlerSucceeds(r)

\* resolve(...) of the promise of processAudioWithAI (138): it acts once,
\* on a promise no timer or error has settled before.
Resolve(r) ==
    IF runs[r].outcome = "pending"
    THEN HandlerSucceeds(r)
    ELSE UNCHANGED <<compVars, progressLog>>

\* reject(...) of that promise (93, 144, 150, 156).
Reject(r, msg) ==
    IF runs[r].outcome = "pending"
    THEN HandlerFails(msg)
    ELSE UNCHANGED <<compVars, progressLog>>

\* The outcome a run has after its promise was settled with `how`.
Settled(r, how) == IF runs[r].outcome = "pending" THEN how ELSE runs[r].outcome

(* ------------------- reader of the original file (449-487) ------------- *)
\* processAudioWithAI without its 30 s timer.
ArmRunTimer_Never == FALSE

\* Whether processAudioWithAI arms its 30 s timer on entry (92-94).
ArmRunTimer == TRUE

\* A progress report that falls behind the value shown.
LoadProgress_Backwards == progress - 1

\* The value of setProgress once the original file is read (454).
LoadProgress == 25

\* reader.onload: setProgress(25), then processAudioWithAI up to
\* reader.readAsArrayBuffer: the timer, a new AudioContext, the ref.
OrigReadLoad(r) ==
    /\ mounted /\ Started(r) /\ runs[r].pc = "readOrig"
    /\ progress' = LoadProgress
    /\ progressLog' = Append(progressLog, LoadProgress)
    /\ openContexts' = openContexts \cup {r}
    /\ audioContextRef' = r
    /\ runs' = [runs EXCEPT ![r] = [@ EXCEPT !.pc = "readFile",
                                            !.t30 = ArmRunTimer,
                                            !.ctx = r]]
    /\ lastCall' = "none"
    /\ UNCHANGED <<extraction, ttsVars>>
    /\ UNCHANGED <<inputFile, isProcessing, error, result, resultFormat,
                   envVars>>

\* reader.onerror (480-485).
OrigReadError(r) ==
    /\ mounted /\ Started(r) /\ runs[r].pc = "readOrig"
    /\ HandlerFails(MsgReadOriginal)
    /\ runs' = [runs EXCEPT ![r] = Over(@, "failed")]
    /\ lastCall' = "none"
    /\ UNCHANGED <<extraction, ttsVars>>
    /\ UNCHANGED <<envVars, resVars>>

(* --------------------- processAudioWithAI (87-159) --------------------- *)
\* The 30 s timer fires (92-94).  Nothing the run has in flight is stopped.
RunTimerFires(r) ==
    /\ mounted /\ Started(r) /\ runs[r].t30
    /\ Reject(r, MsgRunTimeout)
    /\ runs' = [runs EXCEPT ![r] = [@ EXCEPT !.t30 = FALSE,
                                            !.outcome = Settled(r, "timedOut")]]
    /\ lastCall' = "none"
    /\ UNCHANGED <<extraction, ttsVars>>
    /\ UNCHANGED <<envVars, resVars>>

\* reader.onerror of the second read (148-151).
FileReadError(r) ==
    /\ mounted /\ Started(r) /\ runs[r].pc = "readFile"
    /\ Reject(r, MsgReadFile)
    /\ runs' = [runs EXCEPT ![r] = Over(@, "failed")]
    /\ lastCall' = "none"
    /\ UNCHANGED <<extraction, ttsVars>>
    /\ UNCHANGED <<envVars, resVars>>

\* reader.onload of the second read up to the await of Promise.race
\* (105-121): decodeAudioData is called and the 10 s timer is set.
FileReadLoad(r) ==
    /\ mounted /\ Started(r) /\ runs[r].pc = "readFile"
    /\ runs' = [runs EXCEPT ![r] = [@ EXCEPT !.pc = "decode", !.t10 = TRUE]]
    /\ lastCall' = "none"
    /\ UNCHANGED <<extraction, ttsVars>>
    /\ UNCHANGED <<compVars, envVars, resVars, progressLog>>

\* A decode timer whose callback rejects nothing.
DecodeTimeout_Silent(r) ==
    /\ runs' = [runs EXCEPT ![r] = [@ EXCEPT !.t10 = FALSE]]
    /\ UNCHANGED <<compVars, progressLog>>

\* What the decode timer does to an open race (113): it rejects it, the
\* catch block (142-145) clears the 30 s timer and rejects the promise.
\* The decode itself stays in flight.
DecodeTimeout(r) ==
    /\ Reject(r, MsgDecodeTimeout)
    /\ runs' = [runs EXCEPT ![r] =
                  [@ EXCEPT !.t10 = FALSE, !.t30 = FALSE, !.raced = TRUE,
                            !.outcome = Settled(r, "timedOut")]]

\* The decode timer fires (111-116) while its race is open.  The code
\* never clears this timer; fired after the decode has settled the race it
\* rejects a settled promise, which does nothing, and is not a step here.
DecodeTimerFires(r) ==
    /\ mounted /\ Started(r) /\ runs[r].t10
    /\ DecodeTimeout(r)
    /\ lastCall' = "none"
    /\ UNCHANGED <<extraction, ttsVars>>
    /\ UNCHANGED <<envVars, resVars>>

\* decodeAudioData rejects.  After the timer won the race nobody listens.
DecodeReject(r) ==
    /\ mounted /\ Started(r) /\ runs[r].pc = "decode"
    /\ IF runs[r].raced
       THEN /\ runs' = [runs EXCEPT ![r] = Over(@, "timedOut")]
            /\ UNCHANGED <<compVars, progressLog>>
       ELSE /\ Reject(r, MsgDecodeError)
            /\ runs' = [runs EXCEPT ![r] = Over(@, "failed")]
    /\ lastCall' = "none"
    /\ UNCHANGED <<extraction, ttsVars>>
    /\ UNCHANGED <<envVars, resVars>>

(* ------------------ extractVocals, enhancement (231-272) --------------- *)
\* The calls of the try block that create a tensor, in order: tensor2d,
\* tensor2d, mul, tanh, mul, tanh (235-246).
TensorCalls == 6

\* The enhancement is entered for two or more channels with tf set
\* (179, 232).
Enhances(f) == FileChannels(f) >= 2 /\ tf # "null"

(* --------------- encoding and resolve (127-145, 346-419) --------------- *)
\* The rest of reader.onload after extractVocals: both stems are encoded,
\* the 30 s timer is cleared and the promise is resolved; an encoder that
\* throws is caught at 142 and the promise is rejected.
Finish(r, encodeOk) ==
    /\ IF encodeOk THEN Resolve(r) ELSE Reject(r, MsgEncodeError)
    /\ runs' = [runs EXCEPT ![r] =
                  Over(@, IF encodeOk THEN "done" ELSE "failed")]

\* decodeAudioData resolves.  With the race still open the onload goes on
\* into extractVocals: k = 0 when no tensor-creating call throws, and the
\* run then awaits data(); k in 1 .. TensorCalls when call k throws, and
\* the run goes on to normalization and encoding at once, as it does for a
\* mono file.
DecodeResolve(r, k, encodeOk) ==
    /\ mounted /\ Started(r) /\ runs[r].pc = "decode"
    /\ IF runs[r].raced
       THEN /\ runs' = [runs EXCEPT ![r] = Over(@, "timedOut")]
            /\ UNCHANGED <<compVars, progressLog>>
       ELSE IF Enhances(runs[r].file) /\ k = 0
       THEN /\ runs' = [runs EXCEPT ![r] = [@ EXCEPT !.pc = "tfData",
                                                       !.t10 = FALSE]]
            /\ UNCHANGED <<compVars, progressLog>>
       ELSE Finish(r, encodeOk)
    /\ lastCall' = "none"
    /\ UNCHANGED <<extraction, ttsVars>>
    /\ UNCHANGED <<envVars, resVars>>

\* Both data() promises have settled (249-250), by resolving or by
\* throwing into the catch block (265-271): the run goes on to
\* normalization and encoding.
TensorData(r, encodeOk) ==
    /\ mounted /\ Started(r) /\ runs[r].pc = "tfData"
    /\ Finish(r, encodeOk)
    /\ lastCall' = "none"
    /\ UNCHANGED <<extraction, ttsVars>>
    /\ UNCHANGED <<envVars, resVars>>

(* ----------------------- useEffect cleanup (80-84) --------------------- *)
\* Unmount closes the context the ref holds, and only that one.
Unmount ==
    /\ mounted
    /\ mounted' = FALSE
    /\ openContexts' = openContexts \ {audioContextRef}
    /\ lastCall' = "none"
    /\ UNCHANGED <<extraction, ttsVars>>
    /\ UNCHANGED <<compVars, engineLoaded, tf, initStep, uploadError,
                   outputFormat, audioContextRef, runs, progressLog>>

(* ------------------- FormatSelector, formatStore ----------------------- *)
\* The select's onChange: setOutputFormat.  The selector is disabled while
\* isProcessing (VocalExtraction 547).
setOutputFormat(format) ==
    /\ mounted /\ ~isProcessing
    /\ outputFormat' = format
    /\ lastCall' = "none"
    /\ UNCHANGED <<extraction, ttsVars>>
    /\ UNCHANGED <<compVars, engineLoaded, tf, initStep, uploadError, mounted,
                   resVars, runs, progressLog>>

\* The format tag of the players under a result: the extension of the
\* suggested filenames and the format prop (588-616).
FormatTag == outputFormat

(* ---------------------------- specification ---------------------------- *)
Next ==
    \/ InitWebglOk
    \/ InitWebglFail
    \/ InitCpuOk
    \/ InitCpuFail
    \/ \E f \in Files : handleFileSelect(f)
    \/ handleRemoveFile
    \/ handleExtractVocals
    \/ \E r \in RunIds : OrigReadLoad(r)
    \/ \E r \in RunIds : OrigReadError(r)
    \/ \E r \in RunIds : RunTimerFires(r)
    \/ \E r \in RunIds : FileReadError(r)
    \/ \E r \in RunIds : FileReadLoad(r)
    \/ \E r \in RunIds : DecodeTimerFires(r)
    \/ \E r \in RunIds : DecodeReject(r)
    \/ \E r \in RunIds, k \in 0 .. TensorCalls, e \in BOOLEAN :
          DecodeResolve(r, k, e)
    \/ \E r \in RunIds, e \in BOOLEAN : TensorData(r, e)
    \/ Unmount

\* The component with the format preference left as it is.
Spec == Init /\ [][Next]_vars

\* The component with the preference changed at will.
FormatNext ==
    \/ Next
    \/ \E format \in Formats : setOutputFormat(format)

FormatSpec == Init /\ [][FormatNext]_vars

(* ------------ extractVocals step by step (161-344, 357-408) ------------ *)
\* Samples are fixed-point numbers, One standing for 1.0.  A channel is a
\* sequence of samples, a matrix a sequence of channels.
One == 1000

\* a / b rounded to the nearest integer, halves away from zero; b > 0.
RoundDiv(a, b) ==
    IF a >= 0 THEN (2 * a + b) \div (2 * b) ELSE -((2 * (-a) + b) \div (2 * b))

Abs(a) == IF a >= 0 THEN a ELSE -a

\* The sum of the two channels, not halved.
Center_Sum(in) == [i \in 1 .. Len(in[1]) |-> in[1][i] + in[2][i]]

\* Stereo branch, first pass (197-207): the center channel and the two
\* side channels of a two-channel input.
Center(in) == [i \in 1 .. Len(in[1]) |-> RoundDiv(in[1][i] + in[2][i], 2)]
Side(in, c) == [i \in 1 .. Len(in[1]) |-> in[c][i] - Center(in)[i]]

\* Second pass (210-229): y[0] = x[0], y[i] = y[i-1] * 0.7 + x[i] * 0.3.
RECURSIVE SmoothAt(_, _)
SmoothAt(x, i) ==
    IF i = 1 THEN x[1]
    ELSE RoundDiv(7 * SmoothAt(x, i - 1) + 3 * x[i], 10)

Smooth(x) == [i \in 1 .. Len(x) |-> SmoothAt(x, i)]

\* context.createBuffer (168-177): as many channels and samples as the
\* input has, all zero.
ZeroMatrix(in) == [c \in 1 .. Len(in) |-> [i \in 1 .. Len(in[1]) |-> 0]]

\* Output channels that are copies of the input's channels beyond the second.
Silent_Copied(in) == SubSeq(in, 3, Len(in))

\* The output channels beyond the second: the branch for two or more
\* channels reads and writes channels 0 and 1 only (181-187), the others
\* stay as createBuffer made them.
Silent(in) == SubSeq(ZeroMatrix(in), 3, Len(in))

\* The buffers at the end of the second pass.
Smoothed(in) ==
    [vocals |-> <<Smooth(Center(in)), Smooth(Center(in))>> \o Silent(in),
     accompaniment |-> <<Smooth(Side(in, 1)), Smooth(Side(in, 2))>>
                          \o Silent(in)]

\* tanh, tabulated at steps of 0.25 up to 1.5 and interpolated linearly;
\* beyond 1.5 the last entry stands.
TanhTable == <<0, 245, 462, 635, 762, 848, 905>>

TanhPos(x) ==
    LET k == x \div 250
    IN  IF k >= 6 THEN TanhTable[7]
        ELSE TanhTable[k + 1]
             + RoundDiv((TanhTable[k + 2] - TanhTable[k + 1]) * (x - 250 * k),
                        250)

Tanh(x) == IF x >= 0 THEN TanhPos(x) ELSE -TanhPos(-x)

\* tf.tanh(tensor.mul(gain)) on one channel (245-246); gain in tenths.
SoftLimit(ch, gain) ==
    [i \in 1 .. Len(ch) |-> Tanh(RoundDiv(gain * ch[i], 10))]

\* What data() of the two enhanced tensors holds (245-250): gain 1.2 for
\* the vocals, 1.1 for the accompaniment.
\* The copy loop (253-258) writes channels 0 and 1.
Enhanced(m) ==
    [vocals |-> <<SoftLimit(m.vocals[1], 12), SoftLimit(m.vocals[2], 12)>>
                   \o SubSeq(m.vocals, 3, Len(m.vocals)),
     accompaniment |-> <<SoftLimit(m.accompaniment[1], 11),
                         SoftLimit(m.accompaniment[2], 11)>>
                          \o SubSeq(m.accompaniment, 3, Len(m.accompaniment))]

(* ------------------- extractVocals, one channel (273-308) -------------- *)
hopSize == windowSize \div 4

Min(a, b) == IF a <= b THEN a ELSE b

\* The starts the window loop visits (283).
LoopVisits(length, start) == start < length - windowSize

\* vocalsWindow[i] and accompanimentWindow[i] of the window at `start`
\* (290-300), i counted from 0: the weights are min(1, 3 i / windowSize)
\* and min(1, 2 (1 - i / windowSize)).
VocalsWindow(x, start, i) ==
    RoundDiv(x[start + i + 1] * Min(windowSize, 3 * i), windowSize)

AccompanimentWindow(x, start, i) ==
    RoundDiv(x[start + i + 1] * Min(windowSize, 2 * (windowSize - i)),
             windowSize)

\* The window loop from `start` on (283-307): what it adds to sample j
\* (from 1) of the two output channels.
RECURSIVE Accumulated(_, _, _)
Accumulated(x, start, j) ==
    IF LoopVisits(Len(x), start)
    THEN LET rest == Accumulated(x, start + hopSize, j)
             i == j - 1 - start
         IN  IF i >= 0 /\ i < windowSize
             THEN [vocals |-> rest.vocals + VocalsWindow(x, start, i),
                   accompaniment |-> rest.accompaniment
                                       + AccompanimentWindow(x, start, i)]
             ELSE rest
    ELSE [vocals |-> 0, accompaniment |-> 0]

\* The buffers at the end of the one-channel branch.
MonoSeparated(in) ==
    [vocals |-> <<[j \in 1 .. Len(in[1]) |-> Accumulated(in[1], 0, j).vocals]>>,
     accompaniment |->
        <<[j \in 1 .. Len(in[1]) |-> Accumulated(in[1], 0, j).accompaniment]>>]

\* Final normalization of one channel (316-340): the peak, and the gain
\* min(1, 0.9 / peak) applied when the peak is above 0.
RECURSIVE PeakUpTo(_, _)
PeakUpTo(ch, n) ==
    IF n = 0 THEN 0
    ELSE IF Abs(ch[n]) > PeakUpTo(ch, n - 1) THEN Abs(ch[n])
    ELSE PeakUpTo(ch, n - 1)

Peak(ch) == PeakUpTo(ch, Len(ch))

\* A normalization that brings every sounding channel to a peak of 0.9.
NormalizeChannel_ToPeak(ch) ==
    IF Peak(ch) > 0
    THEN [i \in 1 .. Len(ch) |-> RoundDiv(9 * One * ch[i], 10 * Peak(ch))]
    ELSE ch

\* A normalization that applies the gain 0.9 to every sounding channel.
NormalizeChannel_FixedGain(ch) ==
    IF Peak(ch) > 0
    THEN [i \in 1 .. Len(ch) |-> RoundDiv(9 * ch[i], 10)]
    ELSE ch

NormalizeChannel(ch) ==
    IF Peak(ch) > 0 /\ 9 * One < 10 * Peak(ch)
    THEN [i \in 1 .. Len(ch) |-> RoundDiv(9 * One * ch[i], 10 * Peak(ch))]
    ELSE ch

Normalized(m) ==
    [vocals |-> [c \in 1 .. Len(m.vocals) |-> NormalizeChannel(m.vocals[c])],
     accompaniment |-> [c \in 1 .. Len(m.accompaniment) |->
                           NormalizeChannel(m.accompaniment[c])]]

\* audioBufferToWavBase64, the sample loop (388-398): each sample clamped
\* to [-1, 1], scaled by 0x7fff and truncated by setInt16, interleaved.
Int16Of(x) ==
    LET c == IF x > One THEN One ELSE IF x < -One THEN -One ELSE x
    IN  IF c >= 0 THEN (c * 32767) \div One ELSE -(((-c) * 32767) \div One)

\* A sample loop that writes channel after channel.
WavSamples_Planar(m) ==
    [j \in 1 .. Len(m) * Len(m[1]) |->
        Int16Of(m[((j - 1) \div Len(m[1])) + 1][((j - 1) % Len(m[1])) + 1])]

WavSamples(m) ==
    [j \in 1 .. Len(m) * Len(m[1]) |->
        Int16Of(m[((j - 1) % Len(m)) + 1][((j - 1) \div Len(m)) + 1])]

\* audioBufferToWavBase64 (357-408): the fields of the 44-byte header in
\* the order they are written, then the samples.  btoa maps different
\* bytes to different strings, so the container stands for its base64.
audioBufferToWavBase64(m, sampleRate) ==
    [riff |-> "RIFF",
     riffSize |-> 36 + Len(m[1]) * Len(m) * 2,
     wave |-> "WAVE",
     fmt |-> "fmt ",
     fmtSize |-> 16,
     audioFormat |-> 1,
     numChannels |-> Len(m) % 65536,
     sampleRate |-> sampleRate,
     byteRate |-> sampleRate * Len(m) * 2,
     blockAlign |-> (Len(m) * 2) % 65536,
     bitsPerSample |-> 16,
     data |-> "data",
     dataSize |-> Len(m[1]) * Len(m) * 2,
     samples |-> WavSamples(m)]

\* An mp3 path that returns a stream of its own, with no samples in it.
audioBufferToMp3Base64_OwnStream(m, sampleRate) ==
    [audioBufferToWavBase64(m, sampleRate) EXCEPT !.riff = "ID3",
                                                  !.samples = << >>]

\* audioBufferToMp3Base64 (410-419).
audioBufferToMp3Base64(m, sampleRate) == audioBufferToWavBase64(m, sampleRate)

\* audioBufferToBase64 (346-355).
audioBufferToBase64(m, sampleRate, format) ==
    IF format = "wav"
    THEN audioBufferToWavBase64(m, sampleRate)
    ELSE audioBufferToMp3Base64(m, sampleRate)

\* The tensors the try block disposes at its end (261-264).
DisposedTensors == 4

\* The tensors left alive by a try block whose call number k threw: those
\* the calls before it created; the catch block (265-271) disposes none.
LiveAfterThrow(k) == k - 1

\* The buffers as the catch block (265-271) leaves them: the copy loop
\* (253-258) comes after every call that can throw, so as they were.
Caught_HalfCopied(x) ==
    [vocals |-> Enhanced(x.smoothed).vocals, accompaniment |-> x.accompaniment]

Caught(x) == [vocals |-> x.vocals, accompaniment |-> x.accompaniment]

\* extractVocals entered with a decoded input `in`: with two or more
\* channels at the end of the smoothing pass, with one channel before the
\* window loop.
\*   pc        "smoothed" or "mono", then "data" (awaiting data(),
\*             249-250), "enhanced" (the branch taken at 179 is over),
\*             "normalized", "encoded" (both stems encoded)
\*   input, sampleRate       the decoded AudioBuffer
\*   vocals, accompaniment   the two output buffers
\*   smoothed  the buffers as the smoothing pass left them
\*   threw     the try block threw
\*   live      tensors created and not disposed, over all activations
\*   calls     activations that have returned
\*   format    the format the stems were encoded for, "none" before
\*   wav       what audioBufferToBase64 returned for the two stems
BeginExtraction(in, rate, live, calls) ==
    [pc |-> IF Len(in) >= 2 THEN "smoothed" ELSE "mono",
     input |-> in, sampleRate |-> rate,
     vocals |-> IF Len(in) >= 2 THEN Smoothed(in).vocals ELSE ZeroMatrix(in),
     accompaniment |-> IF Len(in) >= 2 THEN Smoothed(in).accompaniment
                       ELSE ZeroMatrix(in),
     smoothed |-> IF Len(in) >= 2 THEN Smoothed(in)
                  ELSE [vocals |-> ZeroMatrix(in),
                        accompaniment |-> ZeroMatrix(in)],
     threw |-> FALSE, live |-> live, calls |-> calls,
     format |-> "none",
     wav |-> [vocals |-> << >>, accompaniment |-> << >>]]

\* The window loop of the one-channel branch (283-307).
SeparateMono ==
    /\ extraction.pc = "mono"
    /\ extraction' =
         [extraction EXCEPT !.pc = "enhanced",
                            !.vocals = MonoSeparated(extraction.input).vocals,
                            !.accompaniment =
                               MonoSeparated(extraction.input).accompaniment]
    /\ UNCHANGED <<compVars, envVars, resVars, runs, progressLog, lastCall,
                   ttsVars>>

\* The tensor-creating calls of the try block (235-246): k = 0 when none
\* throws and the block reaches its awaits, k in 1 .. TensorCalls when
\* call k throws.
EnhanceCalls(k) ==
    /\ extraction.pc = "smoothed"
    /\ extraction' =
         IF k = 0
         THEN [extraction EXCEPT !.pc = "data",
                                 !.live = @ + TensorCalls]
         ELSE [extraction EXCEPT !.pc = "enhanced", !.threw = TRUE,
                                 !.live = @ + LiveAfterThrow(k),
                                 !.vocals = Caught(extraction).vocals,
                                 !.accompaniment =
                                    Caught(extraction).accompaniment]
    /\ UNCHANGED <<compVars, envVars, resVars, runs, progressLog, lastCall,
                   ttsVars>>

\* The two awaits of data() (249-250).  With ok both resolve, the samples
\* are copied back (253-258) and four tensors are disposed (261-264);
\* without, one of them throws.
EnhanceData(ok) ==
    /\ extraction.pc = "data"
    /\ extraction' =
         IF ok
         THEN [extraction EXCEPT !.pc = "enhanced",
                                 !.live = @ - DisposedTensors,
                                 !.vocals = Enhanced(extraction.smoothed).vocals,
                                 !.accompaniment =
                                    Enhanced(extraction.smoothed).accompaniment]
         ELSE [extraction EXCEPT !.pc = "enhanced", !.threw = TRUE,
                                 !.vocals = Caught(extraction).vocals,
                                 !.accompaniment =
                                    Caught(extraction).accompaniment]
    /\ UNCHANGED <<compVars, envVars, resVars, runs, progressLog, lastCall,
                   ttsVars>>

\* Final normalization (310-341).
NormalizeStep ==
    /\ extraction.pc = "enhanced"
    /\ extraction' =
         [extraction EXCEPT !.pc = "normalized",
                            !.vocals = Normalized(extraction).vocals,
                            !.accompaniment = Normalized(extraction).accompaniment]
    /\ UNCHANGED <<compVars, envVars, resVars, runs, progressLog, lastCall,
                   ttsVars>>

\* extractVocals returns and both stems are encoded for `format`
\* (125-135).
EncodeStep(format) ==
    /\ extraction.pc = "normalized"
    /\ extraction' =
         [extraction EXCEPT
            !.pc = "encoded", !.calls = @ + 1, !.format = format,
            !.wav = [vocals |-> audioBufferToBase64(extraction.vocals,
                                   extraction.sampleRate, format),
                     accompaniment |->
                        audioBufferToBase64(extraction.accompaniment,
                                            extraction.sampleRate, format)]]
    /\ UNCHANGED <<compVars, envVars, resVars, runs, progressLog, lastCall,
                   ttsVars>>

\* The same input is extracted again.
ExtractAgain ==
    /\ extraction.pc = "encoded"
    /\ extraction.calls < MaxExtractions
    /\ extraction' = BeginExtraction(extraction.input, extraction.sampleRate,
                                     extraction.live, extraction.calls)
    /\ UNCHANGED <<compVars, envVars, resVars, runs, progressLog, lastCall,
                   ttsVars>>

\* Inputs of two channels and up to MaxLen samples per channel, and of
\* three to MaxChannels channels and up to MaxMultiLen samples per channel,
\* the channels beyond the second not silent.
SampleValues == {-One, 0, One \div 2}

Channels(n) == [1 .. n -> SampleValues]

ExtraChannels(n, k) == [c \in 1 .. k |-> [i \in 1 .. n |-> One \div 2]]

StereoInputs ==
    UNION {{<<l, r>> \o ExtraChannels(n, k) :
               l \in Channels(n), r \in Channels(n),
               k \in 0 .. (IF n <= MaxMultiLen THEN MaxChannels - 2 ELSE 0)} :
           n \in 1 .. MaxLen}

\* One-channel inputs of up to MaxMonoLen samples, none of them zero.
MonoInputs ==
    {<<[j \in 1 .. n |-> v]>> : n \in 1 .. MaxMonoLen, v \in {-One, One \div 2}}

\* sampleRate of the decoded AudioBuffer.
SampleRates == {8000, 44100}

EnhanceInit ==
    /\ ComponentInit
    /\ PollingInit
    /\ \E in \in StereoInputs \cup MonoInputs, rate \in SampleRates :
          extraction = BeginExtraction(in, rate, 0, 0)

EnhanceNext ==
    \/ \E k \in 0 .. TensorCalls : EnhanceCalls(k)
    \/ \E ok \in BOOLEAN : EnhanceData(ok)
    \/ SeparateMono
    \/ NormalizeStep
    \/ \E format \in Formats : EncodeStep(format)
    \/ ExtractAgain

EnhanceSpec == EnhanceInit /\ [][EnhanceNext]_vars

(* ======================================================================= *)
(* The speech and voice-clone jobs: ttsStore, useJobPolling, TTSComponent. *)
(* The remote job API (generateTTSAsync, cloneVoiceAsync, pollJobStatus)   *)
(* is a collaborator: a submission returns a job identifier or throws, a   *)
(* poll returns the job's remote status or throws.  The handlers of        *)
(* TTSComponent carry no guard on jobs of their own; the disabled          *)
(* attribute of the button that calls them is their guard here.            *)
(* ======================================================================= *)
\* The statuses pollJobStatus returns; TIMED_OUT stands for every value
\* that is none of the five the hook names.
RemoteStatuses ==
    {"IN_QUEUE", "IN_PROGRESS", "COMPLETED", "FAILED", "CANCELLED",
     "TIMED_OUT"}

\* The statuses a remote job can take next.
RemoteNext(s) ==
    CASE s = "IN_QUEUE" -> {"IN_PROGRESS", "CANCELLED"}
      [] s = "IN_PROGRESS" -> {"COMPLETED", "FAILED", "TIMED_OUT"}
      [] OTHER -> {}

\* status.output and status.error of a poll response.
OutputOf(s) == IF s = "COMPLETED" THEN "audio" ELSE Undefined
ErrorOf(s) == IF s = "FAILED" THEN "job failed" ELSE Undefined

\* error.message of a poll request that threw.
MsgRequest == "Failed to fetch"

(* ------------------------------ ttsStore ------------------------------- *)
\* { ...state.jobs[jobId] } (63): the fields of the stored record, none
\* for a jobId the store does not hold.
Spread(jobId) ==
    IF jobId \in DOMAIN jobs THEN jobs[jobId]
    ELSE [id |-> NoJob, status |-> Undefined, result |-> Undefined,
          error |-> Undefined, createdAt |-> FALSE]

\* jobs with the entry of jobId set to rec.
WithJob(jobId, rec) ==
    [j \in DOMAIN jobs \cup {jobId} |-> IF j = jobId THEN rec ELSE jobs[j]]

\* startJob (37-51).
startJob(jobId) ==
    /\ jobs' = WithJob(jobId, NewJob(jobId))
    /\ currentJobId' = jobId

\* updateJobStatus (53-71).
updateJobStatus(jobId, status, res, err) ==
    jobs' = WithJob(jobId, [Spread(jobId) EXCEPT !.status = status,
                                                 !.result = res,
                                                 !.error = err])

\* isJobRunning (97-100).
isJobRunning(jobId) ==
    jobId \in DOMAIN jobs /\ jobs[jobId].status \in {"running", "pending"}

\* isJobRunning read after the store has been written.
isJobRunningNext(jobId) ==
    jobId \in DOMAIN jobs' /\ jobs'[jobId].status \in {"running", "pending"}

\* getCurrentJob (92-95): NoJob stands for null.
getCurrentJob ==
    IF currentJobId # NoJob /\ currentJobId \in DOMAIN jobs
    THEN currentJobId ELSE NoJob

(* ---------------------------- useJobPolling ---------------------------- *)
\* clearInterval(h) on the set ts of active timers.
clearInterval(ts, h) == {t \in ts : t.h # h}

\* The handle setInterval returns: one no active timer and no ref holds.
setInterval(ts, ref) ==
    CHOOSE h \in 1 .. Cardinality(ts) + 2 :
        /\ h # ref /\ \A t \in ts : t.h # h
        /\ \A k \in 1 .. h - 1 : k = ref \/ \E t \in ts : t.h = k

\* A cleanup that clears nothing.
CleanedUp_Nothing == [timers |-> timers, ref |-> intervalRef]

\* The timers and the ref after the cleanup of the latest effect (75-80),
\* when that effect returned one.
CleanedUp ==
    IF cleanup
    THEN [timers |-> clearInterval(timers, intervalRef), ref |-> NoTimer]
    ELSE [timers |-> timers, ref |-> intervalRef]

\* The effect (12-81) for a render with a new jobId, after the cleanup of
\* the effect before: `running` is isJobRunning(jobId) at that time.
useEffect(jobId, running) ==
    IF ~pollingMounted
    THEN UNCHANGED <<intervalRef, timers, cleanup>>
    ELSE IF jobId = NoJob \/ ~running
    THEN /\ timers' = clearInterval(CleanedUp.timers, CleanedUp.ref)
         /\ intervalRef' = NoTimer
         /\ cleanup' = FALSE
    ELSE /\ timers' = CleanedUp.timers
                        \cup {[h |-> setInterval(CleanedUp.timers,
                                                 CleanedUp.ref),
                               job |-> jobId]}
         /\ intervalRef' = setInterval(CleanedUp.timers, CleanedUp.ref)
         /\ cleanup' = TRUE

\* The store status of a manual poll that takes CANCELLED for unknown.
manualStoreStatus_CancelledUnknown(s) ==
    CASE s = "IN_QUEUE" -> "pending"
      [] s = "IN_PROGRESS" -> "running"
      [] s = "COMPLETED" -> "completed"
      [] s = "FAILED" -> "failed"
      [] OTHER -> "pending"

\* storeStatus of pollJob (26-43).
storeStatus(s) ==
    CASE s = "IN_QUEUE" -> "pending"
      [] s = "IN_PROGRESS" -> "running"
      [] s = "COMPLETED" -> "completed"
      [] s \in {"FAILED", "CANCELLED"} -> "failed"
      [] OTHER -> "pending"

\* storeStatus of manualPoll (90-107).
manualStoreStatus(s) ==
    CASE s = "IN_QUEUE" -> "pending"
      [] s = "IN_PROGRESS" -> "running"
      [] s = "COMPLETED" -> "completed"
      [] s \in {"FAILED", "CANCELLED"} -> "failed"
      [] OTHER -> "pending"

\* A pollJob that leaves the interval running.
StopPolling_Never == UNCHANGED <<intervalRef, timers>>

\* if (intervalRef.current) { clearInterval; intervalRef.current = null }
\* of pollJob (49-52, 64-67).
StopPolling ==
    /\ timers' = clearInterval(timers, intervalRef)
    /\ intervalRef' = NoTimer

\* A request of `kind` for jobId, sent and not yet answered.
Request(jobId, kind) == [job |-> jobId, kind |-> kind, answer |-> "sent"]

\* The interval of timer t fires: pollJob sends its request (21-23).
pollJob(t) ==
    /\ t \in timers
    /\ BagCardinality(polls) < MaxPolls
    /\ polls' = polls (+) SetToBag({Request(t.job, "auto")})
    /\ UNCHANGED <<jobs, currentJobId, intervalRef, timers, cleanup,
                   submissions, remote, pollingMounted, stopped, storeCalls>>
    /\ UNCHANGED hostVars

\* The click on the refresh button of the job card, rendered for a
\* current job and disabled once it is completed or failed (335,
\* 347-350): handleManualPoll (123-131) calls manualPoll, which sends its
\* request (85-88).
handleManualPoll ==
    /\ pollingMounted
    /\ getCurrentJob # NoJob
    /\ jobs[currentJobId].status \notin {"completed", "failed"}
    /\ BagCardinality(polls) < MaxPolls
    /\ polls' = polls (+) SetToBag({Request(currentJobId, "manual")})
    /\ UNCHANGED <<jobs, currentJobId, intervalRef, timers, cleanup,
                   submissions, remote, pollingMounted, stopped, storeCalls>>
    /\ UNCHANGED hostVars

\* The remote side answers request p with the job's status of that moment.
Answer(p) ==
    /\ BagIn(p, polls) /\ p.answer = "sent"
    /\ polls' = (polls (-) SetToBag({p}))
                   (+) SetToBag({[p EXCEPT !.answer = remote[p.job]]})
    /\ UNCHANGED <<jobs, currentJobId, intervalRef, timers, cleanup,
                   submissions, remote, pollingMounted, stopped, storeCalls>>
    /\ UNCHANGED hostVars

\* The answer of request p arrives: the rest of the try block of pollJob
\* (26-53) or of manualPoll (90-110).
Respond(p) ==
    /\ BagIn(p, polls) /\ p.answer # "sent"
    /\ LET status == IF p.kind = "auto" THEN storeStatus(p.answer)
                  ELSE manualStoreStatus(p.answer)
        stops == p.kind = "auto" /\ status \in {"completed", "failed"}
       IN  /\ updateJobStatus(p.job, status, OutputOf(p.answer),
                              ErrorOf(p.answer))
           /\ IF stops THEN StopPolling ELSE UNCHANGED <<intervalRef, timers>>
           /\ stopped' = IF stops THEN stopped \cup {p.job} ELSE stopped
    /\ polls' = polls (-) SetToBag({p})
    /\ UNCHANGED <<currentJobId, cleanup, submissions, remote, pollingMounted,
                   storeCalls>>
    /\ UNCHANGED hostVars

\* Request p throws: the catch block of pollJob (54-68) or of manualPoll
\* (111-120), whose rethrow handleManualPoll logs (127-129).
RequestThrows(p) ==
    /\ BagIn(p, polls)
    /\ updateJobStatus(p.job, "failed", Undefined, MsgRequest)
    /\ IF p.kind = "auto" THEN StopPolling
       ELSE UNCHANGED <<intervalRef, timers>>
    /\ stopped' = IF p.kind = "auto" THEN stopped \cup {p.job} ELSE stopped
    /\ polls' = polls (-) SetToBag({p})
    /\ UNCHANGED <<currentJobId, cleanup, submissions, remote, pollingMounted,
                   storeCalls>>
    /\ UNCHANGED hostVars

\* The component unmounts: the cleanup of the latest effect (75-80).
UnmountPolling ==
    /\ pollingMounted
    /\ pollingMounted' = FALSE
    /\ timers' = CleanedUp.timers
    /\ intervalRef' = CleanedUp.ref
    /\ cleanup' = FALSE
    /\ UNCHANGED <<jobs, currentJobId, polls, submissions, remote, stopped, storeCalls>>
    /\ UNCHANGED hostVars

(* ----------------------------- TTSComponent ---------------------------- *)
\* Job identifiers the remote side has not given out.
FreeJobIds == {j \in JobIds : remote[j] = "none"}

\* A handler sends its submission (89, 113) and awaits the identifier.
Submit(mode) ==
    /\ pollingMounted
    /\ BagCardinality(submissions) < Cardinality(FreeJobIds)
    /\ submissions' = submissions (+) SetToBag({mode})
    /\ UNCHANGED <<jobs, currentJobId, intervalRef, timers, cleanup, polls,
                   remote, pollingMounted, stopped, storeCalls>>
    /\ UNCHANGED hostVars

\* The click on Generate Speech, disabled while isJobRunning(currentJobId
\* || "") (246-254): handleTTS up to its await of generateTTSAsync (64-89).
handleTTS == ~isJobRunning(currentJobId) /\ Submit("tts")

\* The click on the voice-clone button (288-294): handleVoiceClone up to
\* its await of cloneVoiceAsync (99-113).
handleVoiceClone == ~isJobRunning(currentJobId) /\ Submit("voice_clone")

\* A submission of `mode` returns the identifier of its new remote job:
\* startJob(id), setCurrentJob(id) (92-93, 116-117), and the effect of the
\* render that follows.
SubmitReturns(mode) ==
    /\ BagIn(mode, submissions)
    /\ LET id == CHOOSE j \in FreeJobIds : \A k \in FreeJobIds : j <= k
       IN  /\ remote' = [remote EXCEPT ![id] = "IN_QUEUE"]
           /\ startJob(id)
           /\ useEffect(id, TRUE)
    /\ submissions' = submissions (-) SetToBag({mode})
    /\ UNCHANGED <<polls, pollingMounted, stopped, storeCalls>>
    /\ UNCHANGED hostVars

\* A submission of `mode` throws: the catch block logs (94-96, 118-120).
SubmitThrows(mode) ==
    /\ BagIn(mode, submissions)
    /\ submissions' = submissions (-) SetToBag({mode})
    /\ UNCHANGED <<jobs, currentJobId, intervalRef, timers, cleanup, polls,
                   remote, pollingMounted, stopped, storeCalls>>
    /\ UNCHANGED hostVars

\* The remote job j moves on.
RemoteStep(j, s) ==
    /\ j \in JobIds /\ remote[j] # "none" /\ s \in RemoteNext(remote[j])
    /\ remote' = [remote EXCEPT ![j] = s]
    /\ UNCHANGED <<jobs, currentJobId, intervalRef, timers, cleanup, polls,
                   submissions, pollingMounted, stopped, storeCalls>>
    /\ UNCHANGED hostVars

PollingNext ==
    \/ handleTTS
    \/ handleVoiceClone
    \/ \E mode \in BagToSet(submissions) : SubmitReturns(mode)
    \/ \E mode \in BagToSet(submissions) : SubmitThrows(mode)
    \/ \E j \in JobIds, s \in RemoteStatuses : RemoteStep(j, s)
    \/ \E t \in timers : pollJob(t)
    \/ handleManualPoll
    \/ \E p \in BagToSet(polls) : Answer(p)
    \/ \E p \in BagToSet(polls) : Respond(p)
    \/ \E p \in BagToSet(polls) : RequestThrows(p)
    \/ UnmountPolling

\* TTSComponent with its store and its polling hook.
PollingSpec == Init /\ [][PollingNext]_vars

(* ------------------- the other actions of ttsStore --------------------- *)
\* TTSComponent calls none of them but setCurrentJob after startJob; here
\* a caller of the store makes up to MaxStoreCalls of them.
\* setCurrentJob (73-75) with a job of the store or null, and the effect
\* of the render that follows when the jobId is a new one.
setCurrentJob(jobId) ==
    /\ storeCalls < MaxStoreCalls
    /\ storeCalls' = storeCalls + 1
    /\ jobId \in DOMAIN jobs \cup {NoJob}
    /\ currentJobId' = jobId
    /\ IF jobId # currentJobId THEN useEffect(jobId, isJobRunning(jobId))
       ELSE UNCHANGED <<intervalRef, timers, cleanup>>
    /\ UNCHANGED <<jobs, polls, submissions, remote, pollingMounted, stopped>>
    /\ UNCHANGED hostVars

\* clearJob (77-86).
clearJob(jobId) ==
    /\ storeCalls < MaxStoreCalls
    /\ storeCalls' = storeCalls + 1
    /\ jobId \in DOMAIN jobs
    /\ jobs' = [j \in DOMAIN jobs \ {jobId} |-> jobs[j]]
    /\ currentJobId' = IF currentJobId = jobId THEN NoJob ELSE currentJobId
    /\ IF currentJobId = jobId THEN useEffect(NoJob, FALSE)
       ELSE UNCHANGED <<intervalRef, timers, cleanup>>
    /\ UNCHANGED <<polls, submissions, remote, pollingMounted, stopped>>
    /\ UNCHANGED hostVars

\* clearAllJobs (88-90).
clearAllJobs ==
    /\ storeCalls < MaxStoreCalls
    /\ storeCalls' = storeCalls + 1
    /\ DOMAIN jobs # {}
    /\ jobs' = << >>
    /\ currentJobId' = NoJob
    /\ IF currentJobId # NoJob THEN useEffect(NoJob, FALSE)
       ELSE UNCHANGED <<intervalRef, timers, cleanup>>
    /\ UNCHANGED <<polls, submissions, remote, pollingMounted, stopped>>
    /\ UNCHANGED hostVars

StoreNext ==
    \/ PollingNext
    \/ \E jobId \in JobIds \cup {NoJob} : setCurrentJob(jobId)
    \/ \E jobId \in JobIds : clearJob(jobId)
    \/ clearAllJobs

\* The same with every action of the store open to its callers.
StoreSpec == Init /\ [][StoreNext]_vars

\* The timers fire when their time has come; nothing makes a file read, a
\* decode or a tensor read-back complete.
Fairness ==
    \A r \in RunIds : WF_vars(RunTimerFires(r)) /\ WF_vars(DecodeTimerFires(r))

LiveSpec == Spec /\ Fairness

(* ------------------------------- properties ---------------------------- *)
\* A step that is a call of handleExtractVocals.
IsCall == lastCall' # "none"

\* The runs with a file read or a decode in flight.
InFlight ==
    {r \in 1 .. Len(runs) : runs[r].pc \in {"readOrig", "readFile", "decode"}}

\* C1: a call of handleExtractVocals made while isProcessing is true
\* changes no field of the extraction state and starts no file read or
\* decode: the set of runs and what each has in flight stay as they are.
C1_BusyCallChangesNothing ==
    [][(IsCall /\ isProcessing) =>
          UNCHANGED <<inputFile, isProcessing, progress, error, result,
                      runs, progressLog, resVars>>]_vars

C1_Witness ==
    /\ lastCall = "busy" /\ isProcessing
    /\ \E r \in 1 .. Len(runs) : runs[r].outcome = "pending"

C3_RejectionChangesNothing ==
    [][(IsCall /\ (isProcessing \/ inputFile = NoFile \/ ~engineLoaded)) =>
          UNCHANGED <<error, result, progress, isProcessing>>]_vars

\* C3 as amended: such a call starts no run and leaves inputFile,
\* isProcessing, result and progress as they are; error is untouched while
\* processing and is otherwise set to the message of the refusal.
C3_RejectionSetsOnlyError ==
    [][(IsCall /\ (isProcessing \/ inputFile = NoFile \/ ~engineLoaded)) =>
          /\ UNCHANGED <<inputFile, isProcessing, result, progress,
                         runs, progressLog>>
          /\ error' = IF isProcessing THEN error
                      ELSE IF inputFile = NoFile THEN MsgSelectFile
                      ELSE MsgNotReady]_vars

C3_Witness ==
    /\ lastCall = "notready" /\ error = MsgNotReady
    /\ inputFile # NoFile /\ ~engineLoaded /\ ~isProcessing

\* The decode of run r is in flight and the handler still waits for it.
AwaitsDecode(r) ==
    Started(r) /\ runs[r].pc = "decode" /\ runs[r].outcome = "pending"

\* C4: a run whose decode never resolves does not hang.  The decode timer
\* is armed as long as the handler awaits the decode; when it fires the run
\* is timed out with the message of the decode timeout, isProcessing false
\* and progress 0; and while the component is mounted the run ends.
C4_DecodeTimeoutEndsRun ==
    /\ [](\A r \in RunIds : AwaitsDecode(r) => runs[r].t10)
    /\ [][\A r \in 1 .. Len(runs) :
            (AwaitsDecode(r) /\ runs[r].t10 /\ ~runs'[r].t10
                /\ runs'[r].pc = "decode")
            => /\ runs'[r].outcome = "timedOut"
               /\ error' = MsgDecodeTimeout
               /\ ~isProcessing'
               /\ progress' = 0]_vars
    /\ \A r \in RunIds :
          AwaitsDecode(r) ~>
             (~mounted \/ (Started(r) /\ runs[r].outcome # "pending"))

C4_Witness ==
    \E r \in 1 .. Len(runs) :
        /\ runs[r].pc = "decode" /\ runs[r].raced
        /\ runs[r].outcome = "timedOut"
        /\ error = MsgDecodeTimeout /\ ~isProcessing /\ progress = 0

\* C5 as stated: isProcessing, once true, becomes false again whichever
\* asynchronous step of the run fails to complete.
C5_ProcessingAlwaysEnds == isProcessing ~> (~isProcessing \/ ~mounted)

\* C5 as amended: a run whose read of the original file has completed
\* ends, with isProcessing false, whichever later step fails to complete.
C5_EndsAfterFirstRead ==
    /\ [][\A r \in 1 .. Len(runs) :
            (runs[r].outcome = "pending" /\ runs'[r].outcome # "pending")
            => ~isProcessing']_vars
    /\ \A r \in RunIds :
          (Started(r) /\ runs[r].outcome = "pending" /\ runs[r].pc # "readOrig")
             ~> (~mounted \/ (Started(r) /\ runs[r].outcome # "pending"))

C5_Witness ==
    \E r \in 1 .. Len(runs) :
        /\ runs[r].pc = "readFile" /\ runs[r].outcome = "timedOut"
        /\ ~isProcessing

\* C6: the AudioContext of every run that has ended is closed.
C6_EndedRunsReleaseContext ==
    \A r \in 1 .. Len(runs) :
        (runs[r].outcome # "pending" /\ runs[r].ctx # NoContext)
        => runs[r].ctx \notin openContexts

\* C7: after the backend failed to initialize, a call made with an input
\* file selected and no run processing starts a run.
C7_InitFailureBlocksNoRun ==
    [][(IsCall /\ initStep = "failed" /\ inputFile # NoFile /\ ~isProcessing)
          => lastCall' = "started"]_vars

\* C10: the step that takes a run to Done leaves a result with the three
\* payloads of the run's file, isProcessing false, error null, and
\* progress at 0 after having been set to 100.
C10_DoneState ==
    [][\A r \in 1 .. Len(runs) :
          (runs[r].outcome = "pending" /\ runs'[r].outcome = "done")
          => /\ result' # NoResult
             /\ result'[1].vocals = <<"vocals", runs[r].file, "wav">>
             /\ result'[1].accompaniment =
                   <<"accompaniment", runs[r].file, "wav">>
             /\ result'[1].original = <<"original", runs[r].file>>
             /\ ~isProcessing'
             /\ error' = NoError
             /\ progress' = 0
             /\ Len(progressLog') >= 2
             /\ progressLog'[Len(progressLog') - 1] = 100
             /\ progressLog'[Len(progressLog')] = 0]_vars

C10_Witness ==
    \E r \in 1 .. Len(runs) :
        /\ runs[r].outcome = "done" /\ result # NoResult
        /\ ~isProcessing /\ progress = 0

\* C8: when the try block of the enhancement has thrown, the buffers that
\* go on to normalization are, sample for sample, those the smoothing pass
\* left, and the next step is the normalization.
C8_ThrowPassesSmoothedThrough ==
    [][(extraction.pc = "enhanced" /\ extraction.threw) =>
          /\ extraction.vocals = extraction.smoothed.vocals
          /\ extraction.accompaniment = extraction.smoothed.accompaniment
          /\ extraction'.pc = "normalized"
          /\ extraction'.vocals = Normalized(extraction.smoothed).vocals
          /\ extraction'.accompaniment =
                Normalized(extraction.smoothed).accompaniment]_vars

\* A thrown enhancement whose transform would have changed both stems,
\* followed through to the encoding.
C8_Witness ==
    /\ extraction.pc = "encoded" /\ extraction.threw
    /\ Enhanced(extraction.smoothed).vocals # extraction.smoothed.vocals
    /\ Enhanced(extraction.smoothed).accompaniment
          # extraction.smoothed.accompaniment
    /\ extraction.live = TensorCalls

\* C9: when the enhancement stage is over no tensor it created is alive.
C9_NoTensorOutlivesStage == extraction.pc # "data" => extraction.live = 0

\* The messages a fault of a run leaves in error.
FaultMessages ==
    {MsgReadOriginal, MsgReadFile, MsgDecodeTimeout, MsgRunTimeout,
     MsgDecodeError, MsgEncodeError}

\* A stage of run r raises a fault: a read error, a decode error, either
\* timer, or an encoder that throws.
FaultStep(r) ==
    \/ OrigReadError(r)
    \/ FileReadError(r)
    \/ RunTimerFires(r)
    \/ DecodeTimerFires(r)
    \/ DecodeReject(r)
    \/ (runs'[r].pc = "ended" /\ \E k \in 0 .. TensorCalls : DecodeResolve(r, k, FALSE))
    \/ TensorData(r, FALSE)

\* C11: a fault raised by a stage of a run whose handler still waits ends
\* the run as failed or timed out, and the step that ends a run so leaves a
\* non-empty message in error, result null, isProcessing false and
\* progress 0.
C11_FaultEndsRun ==
    [][\A r \in 1 .. Len(runs) :
          /\ (runs[r].outcome = "pending" /\ FaultStep(r))
             => runs'[r].outcome \in {"failed", "timedOut"}
          /\ (runs[r].outcome = "pending"
                /\ runs'[r].outcome \in {"failed", "timedOut"})
             => /\ error' \in FaultMessages
                /\ error' # NoError /\ error' # ""
                /\ result' = NoResult
                /\ ~isProcessing'
                /\ progress' = 0]_vars

C11_Witness ==
    \E r \in 1 .. Len(runs) :
        /\ runs[r].outcome = "failed" /\ runs[r].pc = "ended"
        /\ error = MsgEncodeError /\ result = NoResult
        /\ ~isProcessing /\ progress = 0

\* C12: while isProcessing stays true progress does not decrease, the
\* values given to setProgress during a run are in non-decreasing order up
\* to the reset that ends it, and the start of a run sets progress to 0.
C12_ProgressMonotone ==
    /\ [][/\ (isProcessing /\ isProcessing') => progress' >= progress
          /\ lastCall' = "started" => (progress' = 0 /\ progressLog' = <<0>>)]_vars
    /\ [](\A i \in 1 .. Len(progressLog) - 1 :
            (isProcessing \/ i < Len(progressLog) - 1)
            => progressLog[i] <= progressLog[i + 1])

C12_Witness ==
    /\ Len(runs) = 2 /\ isProcessing /\ progress = LoadProgress
    /\ progressLog = <<0, LoadProgress>>

\* C13: the tag shown with a result is the format its payloads were
\* encoded for, whatever was done to the preference since.
C13_TagIsEncodedFormat == result # NoResult => FormatTag = resultFormat

\* C14: inputFile is null or a file whose type starts with audio/ and
\* whose size is at most 50 MiB, and a select or drop that is refused
\* leaves inputFile as it was.
C14_OnlyValidatedFiles ==
    /\ [](inputFile # NoFile =>
            /\ inputFile \in Files
            /\ FileIsAudio(inputFile)
            /\ FileSize(inputFile) <= MaxUploadSize)
    /\ [][uploadError' # NoError => inputFile' = inputFile]_vars

\* The file of exactly 50 MiB is selected and stays after the file one
\* byte larger was refused.
C14_Witness ==
    /\ inputFile # NoFile /\ FileSize(inputFile) = MaxUploadSize
    /\ uploadError = MsgTooLarge

\* The two stems of the activation followed.
Stems == {"vocals", "accompaniment"}

\* An input is being extracted, or has been.
Extracting == extraction.pc # "none"

\* Channel ch has a sample that is not zero.
Sounds(ch) == \E i \in 1 .. Len(ch) : ch[i] # 0

\* C15: for an input of two or more channels both stems have, at every
\* stage, as many channels as the input and as many samples in each, and
\* their channels beyond the second are silent.
C15_SameShapeSilentExtras ==
    (Extracting /\ Len(extraction.input) >= 2) =>
        \A stem \in Stems :
            /\ Len(extraction[stem]) = Len(extraction.input)
            /\ \A c \in 1 .. Len(extraction[stem]) :
                  /\ Len(extraction[stem][c]) = Len(extraction.input[1])
                  /\ c >= 3 => ~Sounds(extraction[stem][c])

C15_Witness ==
    /\ extraction.pc = "normalized"
    /\ Len(extraction.input) = 3 /\ Sounds(extraction.input[3])
    /\ Sounds(extraction.vocals[1]) /\ Sounds(extraction.accompaniment[2])

\* 0.9, the peak the normalization allows.
PeakLimit == (9 * One) \div 10

\* C16: the normalization leaves every channel of both stems with a peak
\* of at most 0.9, and leaves a channel whose peak was at most 0.9 as it
\* was.
C16_NormalizedPeak ==
    [][(extraction.pc = "enhanced" /\ extraction'.pc = "normalized") =>
          \A stem \in Stems : \A c \in 1 .. Len(extraction[stem]) :
              /\ Peak(extraction'[stem][c]) <= PeakLimit
              /\ Peak(extraction[stem][c]) <= PeakLimit
                    => extraction'[stem][c] = extraction[stem][c]]_vars

\* A thrown enhancement left the vocals above 0.9 and the accompaniment
\* below: the first were brought to 0.9, the second kept.
C16_Witness ==
    /\ extraction.pc = "normalized" /\ extraction.threw
    /\ Peak(extraction.smoothed.vocals[1]) > PeakLimit
    /\ Peak(extraction.vocals[1]) = PeakLimit
    /\ Sounds(extraction.accompaniment[1])
    /\ extraction.accompaniment = extraction.smoothed.accompaniment

\* C17: normalizing the normalized stems again returns them unchanged.
C17_NormalizeIdempotent ==
    extraction.pc \in {"normalized", "encoded"} =>
        /\ Normalized(extraction).vocals = extraction.vocals
        /\ Normalized(extraction).accompaniment = extraction.accompaniment

\* A one-channel input whose windows added up to more than 0.9.
C17_Witness ==
    /\ extraction.pc = "normalized" /\ Len(extraction.input) = 1
    /\ Peak(MonoSeparated(extraction.input).vocals[1]) > PeakLimit
    /\ Peak(extraction.vocals[1]) = PeakLimit

\* w has the header of a 16-bit PCM wav file for its samples.
IsWav(w) ==
    /\ w.riff = "RIFF" /\ w.wave = "WAVE" /\ w.fmt = "fmt " /\ w.data = "data"
    /\ w.fmtSize = 16 /\ w.audioFormat = 1 /\ w.bitsPerSample = 16
    /\ w.numChannels >= 1 /\ w.sampleRate >= 1
    /\ w.blockAlign = w.numChannels * 2
    /\ w.byteRate = w.sampleRate * w.blockAlign
    /\ w.dataSize = Len(w.samples) * 2
    /\ w.riffSize = 36 + w.dataSize

\* C18: encoding for mp3 returns what encoding for wav returns, a wav
\* container, and the encoding step completes for either format.
C18_Mp3IsWav ==
    /\ Extracting =>
          \A stem \in Stems :
              /\ audioBufferToBase64(extraction[stem], extraction.sampleRate, "mp3")
                    = audioBufferToBase64(extraction[stem],
                                          extraction.sampleRate, "wav")
              /\ IsWav(audioBufferToBase64(extraction[stem],
                                           extraction.sampleRate, "mp3"))
    /\ extraction.pc = "encoded" =>
          \A stem \in Stems :
              /\ extraction.wav[stem]
                    = audioBufferToWavBase64(extraction[stem],
                                             extraction.sampleRate)
              /\ IsWav(extraction.wav[stem])

C18_Witness ==
    /\ extraction.pc = "encoded" /\ extraction.format = "mp3"
    /\ extraction.wav.vocals.riff = "RIFF"
    /\ \E j \in 1 .. Len(extraction.wav.vocals.samples) :
          extraction.wav.vocals.samples[j] # 0

\* Reading a 16-bit PCM wav container: the rate, and the channels taken
\* from the interleaved frames, as 16-bit values.
DecodeWav(w) ==
    [sampleRate |-> w.sampleRate,
     channels |-> [c \in 1 .. w.numChannels |->
                     [i \in 1 .. (w.dataSize \div w.blockAlign) |->
                         w.samples[(i - 1) * w.numChannels + c]]]]

\* m, at rate, comes back from the wav container with its rate, channel
\* count and length, every sample within one step of 1/32767.
RoundTrips(m, rate) ==
    LET d == DecodeWav(audioBufferToWavBase64(m, rate))
    IN  /\ d.sampleRate = rate
        /\ Len(d.channels) = Len(m)
        /\ \A c \in 1 .. Len(m) :
              /\ Len(d.channels[c]) = Len(m[c])
              /\ \A i \in 1 .. Len(m[c]) :
                    Abs(m[c][i] * 32767 - d.channels[c][i] * One) <= One

\* C19: the decoded input, and both stems as they are handed to the
\* encoder, come back from the wav container with the same rate, channel
\* count, length and order, each sample within 1/32767 of the original;
\* and what the encoding step returned reads back so.
C19_WavRoundTrip ==
    /\ Extracting => RoundTrips(extraction.input, extraction.sampleRate)
    /\ extraction.pc \in {"normalized", "encoded"} =>
          /\ RoundTrips(extraction.vocals, extraction.sampleRate)
          /\ RoundTrips(extraction.accompaniment, extraction.sampleRate)
    /\ extraction.pc = "encoded" =>
          \A stem \in Stems :
              LET d == DecodeWav(extraction.wav[stem])
              IN  /\ d.sampleRate = extraction.sampleRate
                  /\ Len(d.channels) = Len(extraction[stem])
                  /\ \A c \in 1 .. Len(extraction[stem]) :
                        /\ Len(d.channels[c]) = Len(extraction[stem][c])
                        /\ \A i \in 1 .. Len(extraction[stem][c]) :
                              Abs(extraction[stem][c][i] * 32767
                                    - d.channels[c][i] * One) <= One

\* Stems of two channels that differ, with a sample that 16 bits do not
\* hold exactly, have been encoded.
C19_Witness ==
    /\ extraction.pc = "encoded" /\ Len(extraction.input) >= 2
    /\ extraction.accompaniment[1] # extraction.accompaniment[2]
    /\ \E i \in 1 .. Len(extraction.accompaniment[1]) :
          (extraction.accompaniment[1][i] * 32767) % One # 0

\* The window starts that are multiples of the hop and whose window fits
\* the length.
FullWindowStarts(length) ==
    {start \in 0 .. length :
        start % hopSize = 0 /\ start + windowSize <= length}

\* C20: after the one-channel branch every sample of a full window of a
\* nowhere-silent input is non-zero in the accompaniment, and in the
\* vocals too unless it is the first sample of the input.
C20_FullWindowsProcessed ==
    (extraction.pc = "enhanced" /\ Len(extraction.input) = 1) =>
        \A start \in FullWindowStarts(Len(extraction.input[1])) :
            \A j \in start + 1 .. start + windowSize :
                /\ extraction.accompaniment[1][j] # 0
                /\ j > 1 => extraction.vocals[1][j] # 0

\* The input has two channels, both the constant 0.5.
HalfInput ==
    /\ Len(extraction.input) = 2
    /\ \A c \in 1 .. 2 : \A i \in 1 .. Len(extraction.input[c]) :
          extraction.input[c][i] = One \div 2

\* The stems are the ones extractVocals returns.
Returned == extraction.pc \in {"normalized", "encoded"}

\* C21, as stated: for the input of two channels that are both the
\* constant 0.5, the returned accompaniment is zero in every sample of
\* every channel and the returned vocals have a peak of 0.9.
C21_VocalsPeakIsLimit ==
    (Returned /\ HalfInput) =>
        /\ \A c \in 1 .. 2 : ~Sounds(extraction.accompaniment[c])
        /\ \A c \in 1 .. 2 : Peak(extraction.vocals[c]) = PeakLimit

\* C21, amended: for that input the returned accompaniment is zero in
\* every sample of every channel, and the returned vocals have the peak
\* the enhancement left, below 0.9: 0.5 when the enhancement threw and
\* tanh(1.2 * 0.5) when it completed; the normalization changes neither
\* stem.
C21_HalfInputKeepsPeak ==
    (Returned /\ HalfInput) =>
        /\ \A c \in 1 .. 2 : ~Sounds(extraction.accompaniment[c])
        /\ \A c \in 1 .. 2 :
              /\ Peak(extraction.vocals[c])
                    = IF extraction.threw THEN One \div 2
                      ELSE Tanh(RoundDiv(12 * (One \div 2), 10))
              /\ Peak(extraction.vocals[c]) < PeakLimit
        /\ extraction.vocals
              = IF extraction.threw THEN extraction.smoothed.vocals
                ELSE Enhanced(extraction.smoothed).vocals

\* The constant 0.5 in both channels went through a completed enhancement
\* and the normalization.
C21_Witness ==
    /\ extraction.pc = "normalized" /\ HalfInput /\ ~extraction.threw
    /\ Len(extraction.input[1]) = MaxLen
    /\ Peak(extraction.vocals[1]) > One \div 2

\* C28: a step of a run the timeout has ended (the late completion or
\* failure of its file read, its decode, its tensor read-back or its
\* encoding) changes none of result, error, isProcessing and progress,
\* whether or not another run has been started since.
C28_LateCompletionChangesNothing ==
    [][\A r \in 1 .. Len(runs) :
          (runs[r].outcome = "timedOut" /\ runs'[r] # runs[r])
             => UNCHANGED <<result, error, isProcessing, progress>>]_vars

\* The 30 s timer ended the first run while it awaited its tensors; the
\* second run is under way and the first one's tensors are still awaited.
C28_Witness ==
    /\ Len(runs) = 2
    /\ runs[1].outcome = "timedOut" /\ runs[1].pc = "tfData" /\ ~runs[1].raced
    /\ runs[2].outcome = "pending" /\ runs[2].pc = "readFile"
    /\ isProcessing /\ progress = LoadProgress /\ error = NoError

StatedStatus(s) ==
    CASE s = "IN_QUEUE" -> "pending"
      [] s = "IN_PROGRESS" -> "running"
      [] s = "COMPLETED" -> "completed"
      [] s = "FAILED" -> "failed"
      [] s = "CANCELLED" -> "failed"
      [] OTHER -> "pending"

\* C22: when the answer of a poll arrives, automatic or manual, the job
\* gets the store status of the table: IN_QUEUE pending, IN_PROGRESS
\* running, COMPLETED completed, FAILED and CANCELLED failed, any other
\* value pending; the two polls map every remote status alike.
C22_SameStatusMapping ==
    [][/\ \A s \in RemoteStatuses : storeStatus(s) = manualStoreStatus(s)
       /\ \A p \in BagToSet(polls) :
             Respond(p) => /\ p.job \in DOMAIN jobs'
                           /\ jobs'[p.job].status = StatedStatus(p.answer)]_vars

\* A manual poll has seen the current job CANCELLED and marked it failed:
\* the interval, which only an automatic poll stops, is still running.
C22_Witness ==
    /\ currentJobId \in DOMAIN jobs
    /\ remote[currentJobId] = "CANCELLED"
    /\ jobs[currentJobId].status = "failed"
    /\ jobs[currentJobId].error = Undefined
    /\ \E t \in timers : t.job = currentJobId

\* C23: no automatic poll request is sent for a job after an automatic
\* poll of that job has seen it completed or failed or has thrown; a
\* request that throws marks its job failed with the error's message.
C23_NoPollAfterTerminal ==
    [][/\ \A t \in timers : pollJob(t) => t.job \notin stopped
       /\ \A p \in BagToSet(polls) :
             (p.kind = "auto" /\ RequestThrows(p))
                => /\ jobs'[p.job].status = "failed"
                   /\ jobs'[p.job].error = MsgRequest
                   /\ p.job \in stopped']_vars

\* An automatic poll of the current job threw while the remote job was in
\* progress: the job is failed in the store and no timer is left.
C23_Witness ==
    /\ pollingMounted /\ currentJobId \in stopped
    /\ remote[currentJobId] = "IN_PROGRESS"
    /\ jobs[currentJobId].status = "failed"
    /\ jobs[currentJobId].error = MsgRequest
    /\ timers = {}

\* C24: at most one interval timer is active, it polls the current jobId
\* of a mounted hook, and none is active once the jobId has changed to
\* null or to a job that is not running, or the hook has unmounted.
C24_OneTimerForCurrentJob ==
    [][/\ Cardinality(timers') <= 1
       /\ \A t \in timers' : pollingMounted' /\ t.job = currentJobId'
       /\ (currentJobId' = NoJob \/ ~pollingMounted') => timers' = {}
       /\ (currentJobId' # currentJobId /\ ~isJobRunningNext(currentJobId'))
             => timers' = {}]_vars

\* The jobId went from a running job, which was being polled, to a
\* completed one: no timer is left.
C24_Witness ==
    /\ pollingMounted /\ storeCalls = 1
    /\ DOMAIN jobs = {1, 2} /\ currentJobId = 1
    /\ jobs[1].status = "completed" /\ jobs[2].status = "running"
    /\ 2 \notin stopped
    /\ timers = {} /\ intervalRef = NoTimer

\* The interval timer of the current job is running.
Polling == \E t \in timers : t.job = currentJobId

\* C25: while the hook stays mounted and the current job stays the same
\* and pending or running in the store, no step stops its polling; the
\* late answer or error of a poll of an earlier job is such a step.
C25_PollingStaysActive ==
    [][(/\ pollingMounted /\ pollingMounted'
        /\ currentJobId # NoJob /\ currentJobId' = currentJobId
        /\ isJobRunning(currentJobId) /\ isJobRunningNext(currentJobId)
        /\ Polling)
          => Polling']_vars

\* C26: a job that is completed or failed in the store keeps its status
\* and its result in every step.
C26_TerminalStatusIsFinal ==
    [][\A j \in DOMAIN jobs :
          jobs[j].status \in {"completed", "failed"}
             => /\ j \in DOMAIN jobs'
                /\ jobs'[j].status = jobs[j].status
                /\ jobs'[j].result = jobs[j].result]_vars

\* C27: every entry of jobs has the id of its key and its createdAt set.
C27_CompleteJobRecords ==
    \A j \in DOMAIN jobs : jobs[j].id = j /\ jobs[j].createdAt

\* A submission is awaiting its job identifier.
Awaited == BagCardinality(submissions) > 0

\* C30: no submission is sent while an earlier one awaits its job
\* identifier or while a job of the store is pending or running.
C30_OneJobOutstanding ==
    [][BagCardinality(submissions') > BagCardinality(submissions)
          => /\ ~Awaited
             /\ \A j \in DOMAIN jobs : ~isJobRunning(j)]_vars

====
